---- MODULE Spec2Model ----
(***************************************************************************)
(* Audify: the document processing pipeline (processingService.ts,         *)
(* textUtils.ts, audioUtils.ts, geminiService.ts, storageService.ts) and   *)
(* the playback session of the single-track Player (Player.tsx).           *)
(*                                                                         *)
(* Text is a sequence of one-character strings.  Time is kept in frames    *)
(* of the 24000 Hz track (seconds * sampleRate), so that                   *)
(* AudioBuffer.duration = length / sampleRate is the frame count itself.   *)
(***************************************************************************)
EXTENDS Integers, Sequences, FiniteSets, TLC

\* ------------------------------------------------------------------ bounds

\* the most images handed to one run of processDocument
MaxImages == 2
\* the most frames one synthesis call returns
MaxFrames == 2
\* the paragraph maximum parseIntoParagraphs passes to normalizeParagraph
\* (1000 in the source), scaled down to the length of the modelled texts
ParaMax == 4

\* ------------------------------------------------------------------ text

WS == {" ", "\n"}
PUNCT == {".", ",", "!", "?", ";", ":"}
TERM == {".", "!", "?"}

Min(a, b) == IF a <= b THEN a ELSE b
Max(a, b) == IF a >= b THEN a ELSE b

RECURSIVE Flatten(_)
Flatten(ss) == IF ss = <<>> THEN <<>> ELSE Head(ss) \o Flatten(Tail(ss))

RECURSIVE JoinWith(_, _)
JoinWith(ss, sep) ==
  IF ss = <<>> THEN <<>>
  ELSE IF Len(ss) = 1 THEN Head(ss)
  ELSE Head(ss) \o sep \o JoinWith(Tail(ss), sep)

\* String.prototype.trim
RECURSIVE TrimLeft(_)
TrimLeft(s) == IF s # <<>> /\ Head(s) \in WS THEN TrimLeft(Tail(s)) ELSE s

RECURSIVE TrimRight(_)
TrimRight(s) ==
  IF s # <<>> /\ s[Len(s)] \in WS THEN TrimRight(SubSeq(s, 1, Len(s) - 1)) ELSE s

Trim(s) == TrimRight(TrimLeft(s))

\* the end (exclusive) of the maximal run of characters of set cs starting at i
RECURSIVE RunEnd(_, _, _)
RunEnd(s, i, cs) == IF i <= Len(s) /\ s[i] \in cs THEN RunEnd(s, i + 1, cs) ELSE i

\* .replace(/\s+/g, ' ')
RECURSIVE CollapseWS(_)
CollapseWS(s) ==
  IF s = <<>> THEN <<>>
  ELSE IF Head(s) \in WS
       THEN <<" ">> \o CollapseWS(SubSeq(s, RunEnd(s, 1, WS), Len(s)))
       ELSE <<Head(s)>> \o CollapseWS(Tail(s))

\* .replace(/\s+([.,!?;:])/g, '$1')
RECURSIVE DropWSBeforePunct(_)
DropWSBeforePunct(s) ==
  IF s = <<>> THEN <<>>
  ELSE IF Head(s) \in WS
       THEN LET e == RunEnd(s, 1, WS)
            IN  IF e <= Len(s) /\ s[e] \in PUNCT
                THEN <<s[e]>> \o DropWSBeforePunct(SubSeq(s, e + 1, Len(s)))
                ELSE SubSeq(s, 1, e - 1) \o DropWSBeforePunct(SubSeq(s, e, Len(s)))
       ELSE <<Head(s)>> \o DropWSBeforePunct(Tail(s))

\* .replace(/([.,!?;:])\s*([.,!?;:])/g, '$1')
RECURSIVE CollapsePunct(_)
CollapsePunct(s) ==
  IF s = <<>> THEN <<>>
  ELSE IF Head(s) \in PUNCT
       THEN LET e == RunEnd(s, 2, WS)
            IN  IF e <= Len(s) /\ s[e] \in PUNCT
                THEN <<Head(s)>> \o CollapsePunct(SubSeq(s, e + 1, Len(s)))
                ELSE <<Head(s)>> \o CollapsePunct(Tail(s))
       ELSE <<Head(s)>> \o CollapsePunct(Tail(s))

\* the two quote replacements act on characters outside the modelled alphabet
cleanOCRText(text) == Trim(CollapsePunct(DropWSBeforePunct(CollapseWS(text))))

RECURSIVE MapClean(_)
MapClean(texts) ==
  IF texts = <<>> THEN <<>> ELSE <<cleanOCRText(Head(texts))>> \o MapClean(Tail(texts))

combineOCRTexts(texts) == JoinWith(MapClean(texts), <<"\n", "\n">>)

\* the end (exclusive) of the maximal run of characters outside cs starting at i
RECURSIVE RunEndNot(_, _, _)
RunEndNot(s, i, cs) ==
  IF i <= Len(s) /\ s[i] \notin cs THEN RunEndNot(s, i + 1, cs) ELSE i

\* the last "\n" of s at a position in lo..hi, 0 when there is none
RECURSIVE LastNL(_, _, _)
LastNL(s, lo, hi) ==
  IF hi < lo THEN 0 ELSE IF s[hi] = "\n" THEN hi ELSE LastNL(s, lo, hi - 1)

\* text.split(/\n\s*\n/): a match starts at a "\n" and runs to the last "\n"
\* of the whitespace that follows it
RECURSIVE SplitFrom(_, _, _)
SplitFrom(s, start, i) ==
  IF i > Len(s) THEN <<SubSeq(s, start, Len(s))>>
  ELSE LET j == IF s[i] = "\n" THEN LastNL(s, i + 1, RunEnd(s, i + 1, WS) - 1) ELSE 0
       IN  IF j > 0
           THEN <<SubSeq(s, start, i - 1)>> \o SplitFrom(s, j + 1, j + 1)
           ELSE SplitFrom(s, start, i + 1)

SplitParagraphBreaks(s) == SplitFrom(s, 1, 1)

\* text.match(/[^.!?]+[.!?]+(?=\s|$)/g), the matches from position i on
RECURSIVE MatchSentences(_, _)
MatchSentences(s, i) ==
  IF i > Len(s) THEN <<>>
  ELSE IF s[i] \in TERM THEN MatchSentences(s, i + 1)
  ELSE LET j == RunEndNot(s, i, TERM)
           k == RunEnd(s, j, TERM)
       IN  IF j <= Len(s) /\ (k > Len(s) \/ s[k] \in WS)
           THEN <<SubSeq(s, i, k - 1)>> \o MatchSentences(s, k)
           ELSE MatchSentences(s, i + 1)

\* chunk.match(new RegExp(`.{1,${maxLength}}`, 'g')): "." matches no "\n"
RECURSIVE MatchFixed(_, _, _)
MatchFixed(s, i, maxLength) ==
  IF i > Len(s) THEN <<>>
  ELSE IF s[i] = "\n" THEN MatchFixed(s, i + 1, maxLength)
  ELSE LET e == Min(RunEndNot(s, i, {"\n"}), i + maxLength)
       IN  <<SubSeq(s, i, e - 1)>> \o MatchFixed(s, e, maxLength)

\* the sentence-packing loop of normalizeParagraph
RECURSIVE PackSentences(_, _, _, _)
PackSentences(sentences, chunks, currentChunk, maxLength) ==
  IF sentences = <<>>
  THEN IF currentChunk # <<>> THEN Append(chunks, Trim(currentChunk)) ELSE chunks
  ELSE LET sentence == Head(sentences)
       IN  IF Len(currentChunk \o sentence) > maxLength
           THEN PackSentences(Tail(sentences),
                              IF currentChunk # <<>>
                              THEN Append(chunks, Trim(currentChunk)) ELSE chunks,
                              sentence, maxLength)
           ELSE PackSentences(Tail(sentences), chunks, currentChunk \o sentence, maxLength)

\* mutant of SplitLongChunk: a long chunk is not split
SplitLongChunkKept(chunk, maxLength) == <<chunk>>

\* the final flatMap of normalizeParagraph (chunk.length < maxLength * 1.5)
SplitLongChunk(chunk, maxLength) ==
  IF 2 * Len(chunk) < 3 * maxLength THEN <<chunk>>
  ELSE LET m == MatchFixed(chunk, 1, maxLength)
       IN  IF m = <<>> THEN <<chunk>> ELSE m

RECURSIVE FlatMapSplitLong(_, _)
FlatMapSplitLong(chunks, maxLength) ==
  IF chunks = <<>> THEN <<>>
  ELSE SplitLongChunk(Head(chunks), maxLength) \o FlatMapSplitLong(Tail(chunks), maxLength)

normalizeParagraph(text, maxLength) ==
  IF Len(text) < maxLength THEN <<text>>
  ELSE LET m == MatchSentences(text, 1)
           sentences == IF m = <<>> THEN <<text>> ELSE m
       IN  FlatMapSplitLong(PackSentences(sentences, <<>>, <<>>, maxLength), maxLength)

RECURSIVE FlatMapNormalize(_, _)
FlatMapNormalize(ps, maxLength) ==
  IF ps = <<>> THEN <<>>
  ELSE normalizeParagraph(Head(ps), maxLength) \o FlatMapNormalize(Tail(ps), maxLength)

RECURSIVE FilterNonBlank(_)
FilterNonBlank(ps) ==
  IF ps = <<>> THEN <<>>
  ELSE (IF Len(Trim(Head(ps))) > 0 THEN <<Head(ps)>> ELSE <<>>) \o FilterNonBlank(Tail(ps))

parseIntoParagraphs(text) ==
  FlatMapNormalize(FilterNonBlank(SplitParagraphBreaks(text)), ParaMax)

\* ------------------------------------------------------------------ audio
\* A float sample is kept as its numerator over 32768 (decodeAudioData divides
\* a 16-bit integer by 32768.0, which is exact in a Float32Array).  An
\* AudioBuffer is [numberOfChannels, sampleRate, length, channelData].

\* ticks per second of the time unit: one frame of the 24000 Hz pipeline
TimeBase == 24000

\* AudioBuffer.duration = length / sampleRate
AudioBufferDuration(buffer) == (buffer.length * TimeBase) \div buffer.sampleRate

\* new Int16Array(data.buffer)[k] (1-based k), little-endian
Int16At(data, k) ==
  LET u == data[2 * k - 1] + 256 * data[2 * k]
  IN  IF u >= 32768 THEN u - 65536 ELSE u

\* mutant of decodeAudioDataThrows: createBuffer accepts a buffer of no frames
decodeAudioDataThrowsOddOnly(data, numChannels) == Len(data) % 2 # 0

\* decodeAudioData throws: Int16Array needs an even byte length (RangeError),
\* createBuffer needs at least one frame (NotSupportedError)
decodeAudioDataThrows(data, numChannels) ==
  \/ Len(data) % 2 # 0
  \/ (Len(data) \div 2) \div numChannels = 0

decodeAudioData(data, sampleRate, numChannels) ==
  LET frameCount == (Len(data) \div 2) \div numChannels
  IN  [numberOfChannels |-> numChannels,
       sampleRate |-> sampleRate,
       length |-> frameCount,
       channelData |-> [channel \in 1..numChannels |->
                          [f \in 1..frameCount |->
                             Int16At(data, (f - 1) * numChannels + channel)]]]

\* TypedArray.prototype.set(source, offset)
SetAt(target, source, offset) ==
  [p \in 1..Len(target) |->
     IF p > offset /\ p <= offset + Len(source) THEN source[p - offset] ELSE target[p]]

RECURSIVE SumLengths(_)
SumLengths(buffers) ==
  IF buffers = <<>> THEN 0 ELSE Head(buffers).length + SumLengths(Tail(buffers))

\* mutant of CopyOffsetStep: the offset advances by one frame
CopyOffsetStepByOne(offset, buffer) == offset + 1

\* the offset the copy loop of concatenateAudioBuffers has reached before buffer k
CopyOffsetStep(offset, buffer) == offset + buffer.length

RECURSIVE CopyOffset(_, _)
CopyOffset(buffers, k) ==
  IF k <= 1 THEN 0 ELSE CopyOffsetStep(CopyOffset(buffers, k - 1), buffers[k - 1])

\* channel data of the concatenated buffer after copying buffers 1..k
RECURSIVE CopyChannel(_, _, _, _)
CopyChannel(buffers, channel, k, totalLength) ==
  IF k = 0 THEN [p \in 1..totalLength |-> 0]
  ELSE SetAt(CopyChannel(buffers, channel, k - 1, totalLength),
             buffers[k].channelData[channel], CopyOffset(buffers, k))

\* concatenateAudioBuffers throws: an empty list, or getChannelData(channel) on a
\* buffer with fewer channels than the first (IndexSizeError)
concatenateAudioBuffersThrows(buffers) ==
  \/ Len(buffers) = 0
  \/ /\ Len(buffers) > 1
     /\ \E k \in 1..Len(buffers) :
          buffers[k].numberOfChannels < buffers[1].numberOfChannels

concatenateAudioBuffers(buffers) ==
  IF Len(buffers) = 1 THEN buffers[1]
  ELSE LET totalLength == SumLengths(buffers)
           numberOfChannels == buffers[1].numberOfChannels
       IN  [numberOfChannels |-> numberOfChannels,
            sampleRate |-> buffers[1].sampleRate,
            length |-> totalLength,
            channelData |-> [channel \in 1..numberOfChannels |->
                               CopyChannel(buffers, channel, Len(buffers), totalLength)]]

\* interleave: frame by frame, the channels of one frame consecutively
interleave(buffer) ==
  [p \in 1..(buffer.length * buffer.numberOfChannels) |->
     buffer.channelData[((p - 1) % buffer.numberOfChannels) + 1]
                       [((p - 1) \div buffer.numberOfChannels) + 1]]

\* mutant of floatTo16BitPCM: samples above zero are scaled by 0x3fff
floatTo16BitPCMHalfScale(sample) ==
  LET s == Max(-32768, Min(32768, sample))
  IN  IF s < 0 THEN s ELSE (s * 16383) \div 32768

\* one sample of floatTo16BitPCM: clamp to [-1, 1], scale by 0x8000 below zero
\* and by 0x7fff otherwise; setInt16 truncates towards zero
floatTo16BitPCM(sample) ==
  LET s == Max(-32768, Min(32768, sample))
  IN  IF s < 0 THEN s ELSE (s * 32767) \div 32768

\* audioBufferToWav: the header fields that carry information, and the data
audioBufferToWav(buffer) ==
  LET data == interleave(buffer)
  IN  [numberOfChannels |-> buffer.numberOfChannels,
       sampleRate |-> buffer.sampleRate,
       bitDepth |-> 16,
       blockAlign |-> buffer.numberOfChannels * 2,
       dataLength |-> Len(data) * 2,
       data |-> [p \in 1..Len(data) |-> floatTo16BitPCM(data[p])]]

\* the duration of an encoded track: frames / sampleRate
WavDuration(blob) == ((blob.dataLength \div blob.blockAlign) * TimeBase) \div blob.sampleRate

\* ------------------------------------------------------------------ pipeline
\* One run of processDocument(userId, images, title, voiceGender, onProgress).

VARIABLES
  images,          \* the File[] argument: [size, ocr], ocr the text Gemini reads in it
  pc,              \* the await the run has reached
  i,               \* the loop index of the stage
  sourceImages,    \* uploadSourceImages' result so far
  ocrTexts,
  fullText,
  paragraphTexts,
  audioBuffers,    \* generateFullAudioWithTimestamps' locals
  timestamps,
  cumulativeTime,
  audioResult,
  statusLog,       \* the statuses passed to onProgress, in order
  callLog,         \* the collaborator calls issued, in order, with their outcome
  error,           \* the message of the error the run threw
  blobs,           \* Firebase Storage
  documents,       \* the Firestore collection 'documents'
  player,          \* the state of one playback session (Player.tsx)
  fn               \* the input and the result of one call of a pure function

procVars == <<images, pc, i, sourceImages, ocrTexts, fullText, paragraphTexts,
              audioBuffers, timestamps, cumulativeTime, audioResult, statusLog,
              callLog, error, blobs, documents>>

nonProcVars == <<player, fn>>
nonPlayerVars == <<procVars, fn>>
nonFnVars == <<procVars, player>>
vars == <<procVars, player, fn>>

NoValue == "none"

MAX_FILE_SIZE == 10 * 1024 * 1024

ImageSizes == {1, MAX_FILE_SIZE + 1}

\* what the OCR model answers for an image (the joined text parts, untrimmed)
OCRResponses ==
  { <<>>,
    <<" ">>,
    <<"a", ".">>,
    <<"a", "\n", "\n", "b">>,
    <<"a", "b", ".", " ", "c", "d", ".">>,
    <<"a", "a", "a", "a", "a", "a", "a">> }

Images == UNION {[1..n -> [size : ImageSizes, ocr : OCRResponses]] : n \in 0..MaxImages}

\* the PCM bytes the speech model answers for paragraph k (0-based) with f frames:
\* 16-bit little-endian samples, sample p of paragraph k being 256 * p + k
RECURSIVE SpeechPCM(_, _)
SpeechPCM(k, f) == IF f = 0 THEN <<>> ELSE SpeechPCM(k, f - 1) \o <<k, f>>

\* the answers of one synthesis call: whole frames, no bytes, a torn last sample
SpeechResponses(k) ==
  {SpeechPCM(k, f) : f \in 0..MaxFrames} \cup {SpeechPCM(k, 1) \o <<0>>}

Status(stage, num, den) == [stage |-> stage, num |-> num, den |-> den]

\* extractTextFromResponse: the parts joined and trimmed
extractTextFromResponse(response) == Trim(response)

\* extractTextFromImage: throws on an empty text
extractTextFromImageThrows(response) == extractTextFromResponse(response) = <<>>

\* the report after image done of total has been read: 25 + (25 * done) / total
OcrProgress(done, total) == Status("ocr", 25 * total + 25 * done, total)

\* mutant of AudioProgress: the percentage of the audio stage is not scaled
AudioProgressUnscaled(done, total) == Status("audio", 50 * total + 100 * done, total)

\* the report after paragraph done of total has been synthesized:
\* 50 + ((done / total) * 100) * 0.4
AudioProgress(done, total) == Status("audio", 50 * total + 40 * done, total)

\* mutant of Catch: the error is rethrown without a status report
CatchSilently(message) ==
  /\ UNCHANGED statusLog
  /\ error' = message
  /\ pc' = "failed"

\* the catch block of processDocument: report 'error' and rethrow
Catch(message) ==
  /\ statusLog' = Append(statusLog, Status("error", 0, 1))
  /\ error' = message
  /\ pc' = "failed"

\* audioResult before generateFullAudioWithTimestamps has returned
NoAudioResult == [audioBlob |-> NoValue, duration |-> 0, timestamps |-> <<>>]

ProcInit ==
  /\ images \in Images
  /\ pc = "start"
  /\ i = 0
  /\ sourceImages = <<>>
  /\ ocrTexts = <<>>
  /\ fullText = <<>>
  /\ paragraphTexts = <<>>
  /\ audioBuffers = <<>>
  /\ timestamps = <<>>
  /\ cumulativeTime = 0
  /\ audioResult = NoAudioResult
  /\ statusLog = <<>>
  /\ callLog = <<>>
  /\ error = NoValue
  /\ blobs = {}
  /\ documents = {}

\* processDocument up to the call of uploadSourceImages
StartRun ==
  /\ pc = "start"
  /\ statusLog' = Append(statusLog, Status("uploading", 0, 1))
  /\ pc' = "upload"
  /\ i' = 0
  /\ UNCHANGED nonProcVars
  /\ UNCHANGED <<images, sourceImages, ocrTexts, fullText, paragraphTexts, audioBuffers,
                 timestamps, cumulativeTime, audioResult, callLog, error, blobs, documents>>

ImageBlob(order) == [kind |-> "image", order |-> order]

\* mutant of uploadBytes: the upload is lost
uploadBytesDropped(storage, blob) == storage

\* uploadBytes(storageRef, data): the blob is in the bucket once it resolves
uploadBytes(storage, blob) == storage \cup {blob}

\* one iteration of the loop of uploadSourceImages
UploadSourceImage ==
  /\ pc = "upload"
  /\ i < Len(images)
  /\ \/ /\ images[i + 1].size > MAX_FILE_SIZE
        /\ Catch("File exceeds 10MB limit")
        /\ UNCHANGED <<blobs, sourceImages, i, callLog>>
     \/ /\ images[i + 1].size <= MAX_FILE_SIZE
        /\ \E outcome \in {"ok", "uploadBytes fails", "getDownloadURL fails"} :
             /\ callLog' = Append(callLog, [op |-> "uploadImage", arg |-> i, outcome |-> outcome])
             /\ blobs' = IF outcome = "uploadBytes fails" THEN blobs
                         ELSE uploadBytes(blobs, ImageBlob(i + 1))
             /\ IF outcome = "ok"
                THEN /\ sourceImages' = Append(sourceImages, [order |-> i + 1])
                     /\ i' = i + 1
                     /\ UNCHANGED <<statusLog, error, pc>>
                ELSE /\ Catch(outcome)
                     /\ UNCHANGED <<sourceImages, i>>
  /\ UNCHANGED nonProcVars
  /\ UNCHANGED <<images, ocrTexts, fullText, paragraphTexts, audioBuffers, timestamps,
                 cumulativeTime, audioResult, documents>>

\* uploadSourceImages returns; the reports before the OCR loop
UploadDone ==
  /\ pc = "upload"
  /\ i = Len(images)
  /\ statusLog' = statusLog \o <<Status("uploading", 25, 1), Status("ocr", 25, 1)>>
  /\ pc' = "ocr"
  /\ i' = 0
  /\ ocrTexts' = <<>>
  /\ UNCHANGED nonProcVars
  /\ UNCHANGED <<images, sourceImages, fullText, paragraphTexts, audioBuffers, timestamps,
                 cumulativeTime, audioResult, callLog, error, blobs, documents>>

\* one iteration of the OCR loop of processDocument
OcrImage ==
  /\ pc = "ocr"
  /\ i < Len(images)
  /\ \E outcome \in {"ok", "Failed to read file.", "Gemini request failed"} :
       /\ callLog' = Append(callLog, [op |-> "ocr", arg |-> i, outcome |-> outcome])
       /\ IF outcome # "ok"
          THEN /\ Catch(outcome)
               /\ UNCHANGED <<ocrTexts, i>>
          ELSE IF extractTextFromImageThrows(images[i + 1].ocr)
          THEN /\ Catch("Gemini returned an empty response.")
               /\ UNCHANGED <<ocrTexts, i>>
          ELSE LET text == extractTextFromResponse(images[i + 1].ocr)
               IN  IF text = <<>> \/ Len(Trim(text)) = 0
                   THEN \* "has no text, skipping"
                        /\ i' = i + 1
                        /\ UNCHANGED <<ocrTexts, statusLog, error, pc>>
                   ELSE /\ ocrTexts' = Append(ocrTexts, text)
                        /\ statusLog' = Append(statusLog, OcrProgress(i + 1, Len(images)))
                        /\ i' = i + 1
                        /\ UNCHANGED <<error, pc>>
  /\ UNCHANGED nonProcVars
  /\ UNCHANGED <<images, sourceImages, fullText, paragraphTexts, audioBuffers, timestamps,
                 cumulativeTime, audioResult, blobs, documents>>

\* after the OCR loop: the 'no text' check, the text is combined and segmented
OcrDone ==
  /\ pc = "ocr"
  /\ i = Len(images)
  /\ IF Len(ocrTexts) = 0
     THEN /\ Catch("No text found in any of the uploaded images.")
          /\ UNCHANGED <<fullText, paragraphTexts, i, audioBuffers, timestamps, cumulativeTime>>
     ELSE /\ fullText' = combineOCRTexts(ocrTexts)
          /\ paragraphTexts' = parseIntoParagraphs(combineOCRTexts(ocrTexts))
          /\ statusLog' = Append(statusLog, Status("audio", 50, 1))
          /\ pc' = "audio"
          /\ i' = 0
          /\ audioBuffers' = <<>>
          /\ timestamps' = <<>>
          /\ cumulativeTime' = 0
          /\ UNCHANGED error
  /\ UNCHANGED nonProcVars
  /\ UNCHANGED <<images, sourceImages, ocrTexts, audioResult, callLog, blobs, documents>>

\* generateSpeech throws on an empty text before it calls the service
generateSpeechThrows(text) == text = <<>> \/ Trim(text) = <<>>

\* mutant of NextTimestamp: the end is not offset by the cumulative time
NextTimestampNoOffset(cumulative, duration) ==
  [start |-> cumulative, end |-> duration]

\* the timestamp pair pushed for a buffer of the given duration
NextTimestamp(cumulative, duration) ==
  [start |-> cumulative, end |-> cumulative + duration]

\* mutant of SynthesisFailure: the failed paragraph is skipped, as the OCR loop
\* skips an image without text
SynthesisFailureSkipped(message) ==
  /\ i' = i + 1
  /\ UNCHANGED <<audioBuffers, timestamps, cumulativeTime, statusLog, error, pc>>

\* mutant of SynthesisFailure: the failed call is made again
SynthesisFailureRetried(message) ==
  UNCHANGED <<audioBuffers, timestamps, cumulativeTime, i, statusLog, error, pc>>

\* a rejected generateSpeech propagates out of the loop to the catch block
SynthesisFailure(message) ==
  /\ Catch(message)
  /\ UNCHANGED <<audioBuffers, timestamps, cumulativeTime, i>>

\* one iteration of the loop of generateFullAudioWithTimestamps
GenerateParagraphAudio ==
  /\ pc = "audio"
  /\ i < Len(paragraphTexts)
  /\ IF generateSpeechThrows(paragraphTexts[i + 1])
     THEN /\ Catch("Text is empty, cannot generate speech.")
          /\ UNCHANGED <<audioBuffers, timestamps, cumulativeTime, i, callLog>>
     ELSE \E outcome \in {"ok", "Gemini request failed",
                            "No audio data returned from Gemini."} :
            \E pcmBytes \in IF outcome = "ok" THEN SpeechResponses(i) ELSE {<<>>} :
              /\ callLog' = Append(callLog, [op |-> "tts", arg |-> i, outcome |-> outcome])
              /\ IF outcome # "ok"
                 THEN SynthesisFailure(outcome)
                 ELSE IF decodeAudioDataThrows(pcmBytes, 1)
                 THEN /\ Catch("decodeAudioData failed")
                      /\ UNCHANGED <<audioBuffers, timestamps, cumulativeTime, i>>
                 ELSE LET audioBuffer == decodeAudioData(pcmBytes, 24000, 1)
                          duration == AudioBufferDuration(audioBuffer)
                      IN  /\ timestamps' = Append(timestamps, NextTimestamp(cumulativeTime, duration))
                          /\ audioBuffers' = Append(audioBuffers, audioBuffer)
                          /\ cumulativeTime' = cumulativeTime + duration
                          /\ statusLog' = Append(statusLog,
                               AudioProgress(i + 1, Len(paragraphTexts)))
                          /\ i' = i + 1
                          /\ UNCHANGED <<error, pc>>
  /\ UNCHANGED nonProcVars
  /\ UNCHANGED <<images, sourceImages, ocrTexts, fullText, paragraphTexts, audioResult,
                 blobs, documents>>

\* after the loop: concatenate, encode, return; processDocument reports 'saving'
AudioDone ==
  /\ pc = "audio"
  /\ i = Len(paragraphTexts)
  /\ IF concatenateAudioBuffersThrows(audioBuffers)
     THEN /\ Catch("No audio buffers to concatenate")
          /\ UNCHANGED audioResult
     ELSE /\ audioResult' = [audioBlob |-> audioBufferToWav(concatenateAudioBuffers(audioBuffers)),
                             duration |-> cumulativeTime,
                             timestamps |-> timestamps]
          /\ statusLog' = Append(statusLog, Status("saving", 90, 1))
          /\ pc' = "uploadAudio"
          /\ UNCHANGED error
  /\ UNCHANGED nonProcVars
  /\ UNCHANGED <<images, i, sourceImages, ocrTexts, fullText, paragraphTexts, audioBuffers,
                 timestamps, cumulativeTime, callLog, blobs, documents>>

AudioBlob(blob) == [kind |-> "audio", blob |-> blob]

\* uploadAudio: uploadBytes, then getDownloadURL
UploadAudio ==
  /\ pc = "uploadAudio"
  /\ \E outcome \in {"ok", "uploadBytes fails", "getDownloadURL fails"} :
       /\ callLog' = Append(callLog, [op |-> "uploadAudio", arg |-> 0, outcome |-> outcome])
       /\ blobs' = IF outcome = "uploadBytes fails" THEN blobs
                   ELSE uploadBytes(blobs, AudioBlob(audioResult.audioBlob))
       /\ IF outcome = "ok"
          THEN /\ pc' = "save"
               /\ UNCHANGED <<statusLog, error>>
          ELSE Catch(outcome)
  /\ UNCHANGED nonProcVars
  /\ UNCHANGED <<images, i, sourceImages, ocrTexts, fullText, paragraphTexts, audioBuffers,
                 timestamps, cumulativeTime, audioResult, documents>>

\* characterPosition before paragraph k (1-based): text.length + 2 per paragraph
RECURSIVE CharacterPosition(_, _)
CharacterPosition(texts, k) ==
  IF k <= 1 THEN 0 ELSE CharacterPosition(texts, k - 1) + Len(texts[k - 1]) + 2

\* createParagraphObjects (the uuid of a paragraph is left out)
createParagraphObjects(texts, stamps) ==
  [k \in 1..Len(texts) |->
     [index |-> k - 1,
      text |-> Trim(texts[k]),
      startTime |-> IF k \in DOMAIN stamps THEN stamps[k].start ELSE 0,
      endTime |-> IF k \in DOMAIN stamps THEN stamps[k].end ELSE 0,
      characterStart |-> CharacterPosition(texts, k),
      characterEnd |-> CharacterPosition(texts, k) + Len(texts[k])]]

\* the Document object processDocument builds
BuildDocument ==
  LET paragraphs == createParagraphObjects(paragraphTexts, audioResult.timestamps)
  IN  [id |-> "documentId",
       sourceImages |-> sourceImages,
       content |-> [fullText |-> cleanOCRText(fullText),
                    paragraphs |-> paragraphs,
                    totalParagraphs |-> Len(paragraphs)],
       audio |-> [storagePath |-> "full-audio.wav",
                  duration |-> audioResult.duration,
                  format |-> "wav",
                  sampleRate |-> 24000],
       playback |-> [currentTime |-> 0, currentParagraphIndex |-> 0],
       notes |-> <<>>]

\* saveDocument (setDoc of the whole record), then the 'complete' report
SaveDocument ==
  /\ pc = "save"
  /\ \E outcome \in {"ok", "setDoc fails"} :
       /\ callLog' = Append(callLog, [op |-> "saveDocument", arg |-> 0, outcome |-> outcome])
       /\ IF outcome = "ok"
          THEN /\ documents' = documents \cup {BuildDocument}
               /\ statusLog' = Append(statusLog, Status("complete", 100, 1))
               /\ pc' = "done"
               /\ UNCHANGED error
          ELSE /\ Catch(outcome)
               /\ UNCHANGED documents
  /\ UNCHANGED nonProcVars
  /\ UNCHANGED <<images, i, sourceImages, ocrTexts, fullText, paragraphTexts, audioBuffers,
                 timestamps, cumulativeTime, audioResult, blobs>>

Next ==
  \/ StartRun
  \/ UploadSourceImage
  \/ UploadDone
  \/ OcrImage
  \/ OcrDone
  \/ GenerateParagraphAudio
  \/ AudioDone
  \/ UploadAudio
  \/ SaveDocument

Init == ProcInit /\ player = NoValue /\ fn = NoValue

Spec == Init /\ [][Next]_vars

\* ------------------------------------------------------------------ pipeline, collaborators that do not answer
\* request() awaits fetch(url, {method, headers, body}) with no AbortSignal and
\* no timer, so a request the service never answers is never settled: the run
\* stays at that await.  The event loop runs every continuation whose promise
\* has settled, so a run that is not suspended goes on.

\* the fetch of the OCR request of image i + 1 is never settled
OcrRequestHangs ==
  /\ pc = "ocr"
  /\ i < Len(images)
  /\ callLog' = Append(callLog, [op |-> "ocr", arg |-> i, outcome |-> "no response"])
  /\ pc' = "awaitOcr"
  /\ UNCHANGED nonProcVars
  /\ UNCHANGED <<images, i, sourceImages, ocrTexts, fullText, paragraphTexts, audioBuffers,
                 timestamps, cumulativeTime, audioResult, statusLog, error, blobs, documents>>

\* the fetch of the synthesis request of paragraph i + 1 is never settled
SpeechRequestHangs ==
  /\ pc = "audio"
  /\ i < Len(paragraphTexts)
  /\ ~generateSpeechThrows(paragraphTexts[i + 1])
  /\ callLog' = Append(callLog, [op |-> "tts", arg |-> i, outcome |-> "no response"])
  /\ pc' = "awaitSpeech"
  /\ UNCHANGED nonProcVars
  /\ UNCHANGED <<images, i, sourceImages, ocrTexts, fullText, paragraphTexts, audioBuffers,
                 timestamps, cumulativeTime, audioResult, statusLog, error, blobs, documents>>

TimeoutNext ==
  \/ StartRun
  \/ UploadSourceImage
  \/ UploadDone
  \/ OcrImage
  \/ OcrDone
  \/ GenerateParagraphAudio
  \/ AudioDone
  \/ UploadAudio
  \/ SaveDocument
  \/ OcrRequestHangs
  \/ SpeechRequestHangs

\* where control is in processDocument: the statement and the loop counter
RunPosition == <<pc, i>>

\* the run has returned, has thrown, or is at the await of an unsettled request
Suspended == pc \in {"done", "failed", "awaitOcr", "awaitSpeech"}

\* control leaves a position at which the run is not suspended; every step of
\* TimeoutNext changes RunPosition, and one is possible wherever the run is not
\* suspended, so this is the weak fairness of TimeoutNext
RunProceeds ==
  /\ ~Suspended
  /\ pc' \in {"upload", "ocr", "audio", "uploadAudio", "save", "done", "failed",
             "awaitOcr", "awaitSpeech"}
  /\ i' \in {0, i, i + 1}

SpecTimeout == Init /\ [][TimeoutNext]_vars /\ WF_RunPosition(RunProceeds)

\* no run of processDocument: the pipeline state of the other specifications
ProcIdle ==
  /\ images = <<>>
  /\ pc = "idle"
  /\ i = 0
  /\ sourceImages = <<>>
  /\ ocrTexts = <<>>
  /\ fullText = <<>>
  /\ paragraphTexts = <<>>
  /\ audioBuffers = <<>>
  /\ timestamps = <<>>
  /\ cumulativeTime = 0
  /\ audioResult = NoAudioResult
  /\ statusLog = <<>>
  /\ callLog = <<>>
  /\ error = NoValue
  /\ blobs = {}
  /\ documents = {}

\* ------------------------------------------------------------------ concatenateAudioBuffers
\* The function applied to lists of buffers of one or two channels, at one of
\* two sample rates, each the shortest or the longest buffer; the sample of
\* frame f of channel c of the k-th buffer is 100 * k + 10 * c + f, so that
\* every sample of a list is different.

\* the most buffers in a list
MaxBuffers == 3

BufferShapes ==
  [numberOfChannels : 1..2, sampleRate : {24000, 48000}, length : {1, MaxFrames}]

TestBuffer(k, shape) ==
  [numberOfChannels |-> shape.numberOfChannels,
   sampleRate |-> shape.sampleRate,
   length |-> shape.length,
   channelData |-> [c \in 1..shape.numberOfChannels |->
                      [f \in 1..shape.length |-> 100 * k + 10 * c + f]]]

BufferLists ==
  UNION {{[k \in 1..n |-> TestBuffer(k, shapes[k])] : shapes \in [1..n -> BufferShapes]}
         : n \in 0..MaxBuffers}

ConcatInit ==
  /\ ProcIdle
  /\ player = NoValue
  /\ \E buffers \in BufferLists :
       fn = [op |-> "concatenateAudioBuffers", buffers |-> buffers,
             done |-> FALSE, threw |-> FALSE, result |-> NoValue]

\* one call of concatenateAudioBuffers(buffers, context)
Concatenate ==
  /\ fn.op = "concatenateAudioBuffers"
  /\ ~fn.done
  /\ fn' = IF concatenateAudioBuffersThrows(fn.buffers)
           THEN [fn EXCEPT !.done = TRUE, !.threw = TRUE]
           ELSE [fn EXCEPT !.done = TRUE, !.result = concatenateAudioBuffers(fn.buffers)]
  /\ UNCHANGED nonFnVars

SpecConcat == ConcatInit /\ [][Concatenate]_vars

\* ------------------------------------------------------------------ getCurrentParagraph

\* the most paragraphs of a paragraph table
MaxParagraphs == 3

\* the paragraph table the pipeline produces for buffers of the given durations
RECURSIVE TableOf(_)
TableOf(durations) ==
  IF durations = <<>> THEN <<>>
  ELSE LET before == TableOf(SubSeq(durations, 1, Len(durations) - 1))
           start == IF before = <<>> THEN 0 ELSE before[Len(before)].endTime
       IN  Append(before, [index |-> Len(before),
                           startTime |-> start,
                           endTime |-> start + durations[Len(durations)]])

Tables ==
  {TableOf(durations) :
     durations \in UNION {[1..n -> 1..MaxFrames] : n \in 1..MaxParagraphs}}

\* the table [0,2), [2,5), [5,5.5), [5.5,9), [9,12) in milliseconds
ExampleTable == TableOf(<<2000, 3000, 500, 3500, 3000>>)
ExampleTimes == {0, 4999, 5000, 11999, 12000, 15000}

ResolveInputs ==
  {<<t, time>> : t \in Tables, time \in 0..(2 * MaxParagraphs * MaxFrames)}
    \cup {<<ExampleTable, time>> : time \in ExampleTimes}

\* what Array.prototype.find returns when no element matches
Undefined == [undefined |-> TRUE]

\* mutant of getCurrentParagraph: the end of a paragraph is inclusive
getCurrentParagraphInclusiveEnd(time, paragraphs) ==
  LET hits == {k \in DOMAIN paragraphs :
                 time >= paragraphs[k].startTime /\ time <= paragraphs[k].endTime}
  IN  IF hits = {} THEN Undefined
      ELSE paragraphs[CHOOSE k \in hits : \A h \in hits : k <= h]

\* getCurrentParagraph: Array.prototype.find, the first paragraph holding time
getCurrentParagraph(time, paragraphs) ==
  LET hits == {k \in DOMAIN paragraphs :
                 time >= paragraphs[k].startTime /\ time < paragraphs[k].endTime}
  IN  IF hits = {} THEN Undefined
      ELSE paragraphs[CHOOSE k \in hits : \A h \in hits : k <= h]

ResolveInit ==
  /\ ProcIdle
  /\ player = NoValue
  /\ \E input \in ResolveInputs :
       fn = [op |-> "getCurrentParagraph", paragraphs |-> input[1], time |-> input[2],
             done |-> FALSE, result |-> NoValue]

\* one call of getCurrentParagraph(time)
Resolve ==
  /\ fn.op = "getCurrentParagraph"
  /\ ~fn.done
  /\ fn' = [fn EXCEPT !.done = TRUE, !.result = getCurrentParagraph(fn.time, fn.paragraphs)]
  /\ UNCHANGED nonFnVars

SpecResolve == ResolveInit /\ [][Resolve]_vars

\* ------------------------------------------------------------------ Player
\* One playback session of the single-track Player over a persisted Document.
\* player.listenerParagraphIndex is the currentParagraphIndex the 'timeupdate'
\* listener closed over: the effect that registers the listener depends on
\* doc.audio.downloadURL and doc.playback.currentTime only, so it runs once,
\* at mount, and the listener keeps the index of that render.

\* the most paragraphs of the document played, and the most frames of one
PlayerParagraphs == 2
PlayerFrames == 2

PlayerTables ==
  {TableOf(durations) :
     durations \in UNION {[1..n -> 1..PlayerFrames] : n \in 1..PlayerParagraphs}}

\* the uuids of the notes taken in the session
NoteIds == {"note-1"}

\* the index of the paragraph of a contiguous table that holds time
ParagraphIndexAt(time, paragraphs) ==
  (CHOOSE k \in DOMAIN paragraphs :
     paragraphs[k].startTime <= time /\ time < paragraphs[k].endTime) - 1

TableEnd(paragraphs) == paragraphs[Len(paragraphs)].endTime

\* the playback position a document can have stored: the initial one, or the
\* position and paragraph of an earlier session
StoredPlayback(paragraphs) ==
  {[currentTime |-> t, currentParagraphIndex |-> ParagraphIndexAt(t, paragraphs)] :
     t \in 0..(TableEnd(paragraphs) - 1)}

\* the session state after the first render, the mount effect and
\* 'loadedmetadata', for a document with the given table and stored playback
MountedSession(paragraphs, playback) ==
  [paragraphs |-> paragraphs,
   audioTime |-> playback.currentTime,
   currentTime |-> playback.currentTime,
   duration |-> TableEnd(paragraphs),
   currentParagraphIndex |-> playback.currentParagraphIndex,
   listenerParagraphIndex |-> playback.currentParagraphIndex,
   isPlaying |-> FALSE,
   notes |-> {}]

PlayerInit ==
  /\ ProcIdle
  /\ fn = NoValue
  /\ \E paragraphs \in PlayerTables : \E playback \in StoredPlayback(paragraphs) :
       player = MountedSession(paragraphs, playback)

\* mutant of TimeUpdateIndex: the listener sets the one-based position
TimeUpdateIndexOneBased(time, paragraphs, listenerIndex, currentIndex) ==
  LET activePara == getCurrentParagraph(time, paragraphs)
  IN  IF activePara # Undefined /\ activePara.index # listenerIndex
      THEN activePara.index + 1
      ELSE currentIndex

\* the index the 'timeupdate' listener leaves: it compares the paragraph at the
\* play-head with the index it closed over
TimeUpdateIndex(time, paragraphs, listenerIndex, currentIndex) ==
  LET activePara == getCurrentParagraph(time, paragraphs)
  IN  IF activePara # Undefined /\ activePara.index # listenerIndex
      THEN activePara.index
      ELSE currentIndex

\* the 'timeupdate' listener; while playing the clock has moved the play-head on
TimeUpdate ==
  /\ \E t \in player.audioTime..player.duration :
       /\ t # player.audioTime => player.isPlaying
       /\ player' = [player EXCEPT
            !.audioTime = t,
            !.currentTime = t,
            !.currentParagraphIndex =
               TimeUpdateIndex(t, player.paragraphs, player.listenerParagraphIndex,
                               player.currentParagraphIndex)]
  /\ UNCHANGED nonPlayerVars

\* the 'ended' listener
Ended ==
  /\ player.isPlaying
  /\ player.audioTime = player.duration
  /\ player' = [player EXCEPT !.isPlaying = FALSE,
                              !.currentTime = TableEnd(player.paragraphs)]
  /\ UNCHANGED nonPlayerVars

\* handlePlayPause; play() on an ended track starts again from 0
handlePlayPause ==
  /\ player' = [player EXCEPT
       !.isPlaying = ~player.isPlaying,
       !.audioTime = IF ~player.isPlaying /\ player.audioTime = player.duration
                     THEN 0 ELSE player.audioTime]
  /\ UNCHANGED nonPlayerVars

\* handleSeek: a click on the timeline at percent * duration
handleSeek ==
  /\ \E newTime \in 0..player.duration :
       player' = [player EXCEPT !.audioTime = newTime,
                                !.currentTime = newTime]
  /\ UNCHANGED nonPlayerVars

\* mutant of SeekToParagraphState: the play-head moves, the index is not set
SeekToParagraphStateTimeOnly(p, paragraphIndex) ==
  IF paragraphIndex + 1 \in DOMAIN p.paragraphs
  THEN [p EXCEPT !.audioTime = p.paragraphs[paragraphIndex + 1].startTime,
                 !.currentTime = p.paragraphs[paragraphIndex + 1].startTime]
  ELSE p

\* seekToParagraph(paragraphIndex) applied to the session state
SeekToParagraphState(p, paragraphIndex) ==
  IF paragraphIndex + 1 \in DOMAIN p.paragraphs
  THEN [p EXCEPT !.audioTime = p.paragraphs[paragraphIndex + 1].startTime,
                 !.currentTime = p.paragraphs[paragraphIndex + 1].startTime,
                 !.currentParagraphIndex = paragraphIndex]
  ELSE p

\* a click on a paragraph
seekToParagraph ==
  /\ \E paragraphIndex \in 0..(Len(player.paragraphs) - 1) :
       player' = SeekToParagraphState(player, paragraphIndex)
  /\ UNCHANGED nonPlayerVars

handleSkipBack ==
  /\ player' = IF player.currentParagraphIndex > 0
               THEN SeekToParagraphState(player, player.currentParagraphIndex - 1)
               ELSE [player EXCEPT !.audioTime = 0, !.currentTime = 0]
  /\ UNCHANGED nonPlayerVars

handleSkipForward ==
  /\ player' = IF player.currentParagraphIndex < Len(player.paragraphs) - 1
               THEN SeekToParagraphState(player, player.currentParagraphIndex + 1)
               ELSE player
  /\ UNCHANGED nonPlayerVars

\* handleAddNote with a non-empty note text, saveNote resolving
handleAddNote ==
  /\ \E id \in NoteIds :
       /\ \A note \in player.notes : note.id # id
       /\ player' = [player EXCEPT
            !.notes = @ \cup {[id |-> id,
                               timestamp |-> player.currentTime,
                               paragraphIndex |-> player.currentParagraphIndex]}]
  /\ UNCHANGED nonPlayerVars

\* handleDeleteNote, deleteNote resolving
handleDeleteNote ==
  /\ \E note \in player.notes :
       player' = [player EXCEPT !.notes = @ \ {note}]
  /\ UNCHANGED nonPlayerVars

jumpToNote ==
  /\ \E note \in player.notes :
       player' = [player EXCEPT !.audioTime = note.timestamp,
                                !.currentTime = note.timestamp,
                                !.currentParagraphIndex = note.paragraphIndex]
  /\ UNCHANGED nonPlayerVars

PlayerNext ==
  \/ TimeUpdate
  \/ Ended
  \/ handlePlayPause
  \/ handleSeek
  \/ seekToParagraph
  \/ handleSkipBack
  \/ handleSkipForward
  \/ handleAddNote
  \/ handleDeleteNote
  \/ jumpToNote

SpecPlayer == PlayerInit /\ [][PlayerNext]_vars

\* ------------------------------------------------------------------ Player: saving the progress
\* The playback session with the wall clock, in seconds; the times of the
\* document are seconds too. fn holds the save-progress effect: the
\* dependencies of its last run (deps, which the timer callback closes over),
\* its pending timer (the seconds left, -1 for none), and what has been
\* observed of the writes: the seconds since the last one (sinceWrite, -1
\* for none yet, counted up to SaveDelay), the seconds between the last two
\* (lastGap), the seconds of playback since the last write or pause
\* (playedFor) and the outcome of the last write.

\* setTimeout(..., 2000)
SaveDelay == 2

\* a document of two paragraphs of two seconds
ProgressTable == TableOf(<<2, 2>>)

ProgressInit ==
  /\ ProcIdle
  /\ \E playback \in StoredPlayback(ProgressTable) :
       /\ player = MountedSession(ProgressTable, playback)
       /\ fn = [op |-> "saveProgress",
                deps |-> <<playback.currentTime, playback.currentParagraphIndex>>,
                timer |-> SaveDelay,
                sinceWrite |-> -1,
                lastGap |-> -1,
                playedFor |-> 0,
                lastOutcome |-> "none",
                failedBefore |-> FALSE]

\* the effect has run for the values of the last render
EffectsFlushed == fn.deps = <<player.currentTime, player.currentParagraphIndex>>

\* the audio element is playing and has not reached the end of the track
Playing == player.isPlaying /\ player.audioTime < player.duration

\* the clock of the effect one second on
ClockTick(saver, playing) ==
  [saver EXCEPT
     !.timer = IF @ > 0 THEN @ - 1 ELSE @,
     !.sinceWrite = IF @ = -1 THEN -1 ELSE Min(@ + 1, SaveDelay),
     !.playedFor = IF playing THEN Min(@ + 1, SaveDelay + 2) ELSE 0]

\* a listener or a handler of the session runs
SessionEvent ==
  /\ EffectsFlushed
  /\ PlayerNext

\* mutant of SaveProgressEffect: the write is not delayed
SaveProgressEffectNoDelay(saver, p) ==
  [saver EXCEPT !.timer = 0,
                !.deps = <<p.currentTime, p.currentParagraphIndex>>]

\* the save-progress effect: clearTimeout, then setTimeout for the values of
\* this render
SaveProgressEffect(saver, p) ==
  [saver EXCEPT !.timer = SaveDelay,
                !.deps = <<p.currentTime, p.currentParagraphIndex>>]

\* the effect runs after a render that changed currentTime or
\* currentParagraphIndex
RunSaveProgressEffect ==
  /\ ~EffectsFlushed
  /\ fn' = SaveProgressEffect(fn, player)
  /\ UNCHANGED nonFnVars

\* a second of playback: the play-head is a second on and a 'timeupdate' has
\* been handled there
PlaySecond ==
  /\ EffectsFlushed
  /\ Playing
  /\ fn.timer # 0
  /\ LET t == player.audioTime + 1
     IN  player' = [player EXCEPT
           !.audioTime = t,
           !.currentTime = t,
           !.currentParagraphIndex =
              TimeUpdateIndex(t, player.paragraphs, player.listenerParagraphIndex,
                              player.currentParagraphIndex)]
  /\ fn' = ClockTick(fn, TRUE)
  /\ UNCHANGED procVars

\* a second passes while the audio element is paused or at its end
Elapse ==
  /\ EffectsFlushed
  /\ ~Playing
  /\ fn.timer # 0
  /\ fn' = ClockTick(fn, FALSE)
  /\ UNCHANGED nonFnVars

\* mutant of SaveProgressFailed: a failed write pauses the session
SaveProgressFailedPauses(p) == [p EXCEPT !.isPlaying = FALSE]

\* updatePlaybackProgress(...).catch(err => console.error(...))
SaveProgressFailed(p) == p

\* the timer callback: updatePlaybackProgress with the values of the render
\* that set the timer, if its currentTime > 0
SaveTimerFires ==
  /\ fn.timer = 0
  /\ IF fn.deps[1] > 0
     THEN \E outcome \in {"ok", "failed"} :
            /\ fn' = [fn EXCEPT !.timer = -1,
                                !.sinceWrite = 0,
                                !.lastGap = fn.sinceWrite,
                                !.playedFor = 0,
                                !.lastOutcome = outcome,
                                !.failedBefore = @ \/ fn.lastOutcome = "failed"]
            /\ player' = IF outcome = "failed" THEN SaveProgressFailed(player) ELSE player
     ELSE /\ fn' = [fn EXCEPT !.timer = -1]
          /\ player' = player
  /\ UNCHANGED procVars

ProgressNext ==
  \/ SessionEvent
  \/ RunSaveProgressEffect
  \/ PlaySecond
  \/ Elapse
  \/ SaveTimerFires

SpecProgress == ProgressInit /\ [][ProgressNext]_vars


\* ------------------------------------------------------------------ segmentation
\* normalizeParagraph and parseIntoParagraphs applied to every text of up to
\* MaxText characters over letters, a sentence terminator, a blank and a
\* newline.

\* the longest text segmented
MaxText == 5

TextAlphabet == {"a", "b", ".", " ", "\n"}

Texts == UNION {[1..n -> TextAlphabet] : n \in 0..MaxText}

\* the maxLength arguments of normalizeParagraph
MaxLengths == {2, ParaMax}

SegmentInit ==
  /\ ProcIdle
  /\ player = NoValue
  /\ \E text \in Texts :
       \/ \E maxLength \in MaxLengths :
            fn = [op |-> "normalizeParagraph", text |-> text, maxLength |-> maxLength,
                  done |-> FALSE, result |-> NoValue]
       \/ fn = [op |-> "parseIntoParagraphs", text |-> text, maxLength |-> ParaMax,
                done |-> FALSE, result |-> NoValue]

\* one call of normalizeParagraph(text, maxLength)
NormalizeParagraph ==
  /\ fn.op = "normalizeParagraph"
  /\ ~fn.done
  /\ fn' = [fn EXCEPT !.done = TRUE, !.result = normalizeParagraph(fn.text, fn.maxLength)]
  /\ UNCHANGED nonFnVars

\* one call of parseIntoParagraphs(text)
ParseIntoParagraphs ==
  /\ fn.op = "parseIntoParagraphs"
  /\ ~fn.done
  /\ fn' = [fn EXCEPT !.done = TRUE, !.result = parseIntoParagraphs(fn.text)]
  /\ UNCHANGED nonFnVars

SegmentNext ==
  \/ NormalizeParagraph
  \/ ParseIntoParagraphs

SpecSegment == SegmentInit /\ [][SegmentNext]_vars

\* ------------------------------------------------------------------ decoder and encoder
\* Every signed 16-bit value, as the two bytes of a synthesis answer, decoded
\* by decodeAudioData into a buffer of one frame and encoded by
\* audioBufferToWav.

PcmValues == (-32768)..32767

\* the little-endian bytes of a 16-bit value
PcmBytes(value) ==
  LET u == IF value < 0 THEN value + 65536 ELSE value
  IN  <<u % 256, u \div 256>>

RoundTripInit ==
  /\ ProcIdle
  /\ player = NoValue
  /\ \E value \in PcmValues :
       fn = [op |-> "roundTrip", value |-> value, step |-> "start",
             buffer |-> NoValue, wav |-> NoValue]

\* decodeAudioData(bytes, ctx, 24000, 1)
Decode ==
  /\ fn.op = "roundTrip"
  /\ fn.step = "start"
  /\ fn' = [fn EXCEPT !.step = "decoded",
                      !.buffer = decodeAudioData(PcmBytes(fn.value), 24000, 1)]
  /\ UNCHANGED nonFnVars

\* audioBufferToWav(buffer)
Encode ==
  /\ fn.op = "roundTrip"
  /\ fn.step = "decoded"
  /\ fn' = [fn EXCEPT !.step = "encoded", !.wav = audioBufferToWav(fn.buffer)]
  /\ UNCHANGED nonFnVars

RoundTripNext ==
  \/ Decode
  \/ Encode

SpecRoundTrip == RoundTripInit /\ [][RoundTripNext]_vars

\* ------------------------------------------------------------------ document store: progress and notes
\* The Firestore record of one persisted Document and the calls of
\* updatePlaybackProgress, saveNote and deleteNote on it.  saveNote and
\* deleteNote await getDoc and then updateDoc: two steps, between which other
\* calls may run.  Calls are numbered in the order they are made.

\* the most calls made on the document
MaxCalls == 3
StoreCalls == 1..MaxCalls
StoreNoteIds == {"note-1", "note-2"}

\* a Note handed to saveNote; edited stands for the updatedAt an update sets
NewNote(id) == [id |-> id, edited |-> FALSE]

\* the (currentTime, currentParagraphIndex) pairs handed to updatePlaybackProgress
ProgressArgs ==
  {<<t, ParagraphIndexAt(t, ProgressTable)>> : t \in 1..(TableEnd(ProgressTable) - 1)}

\* the record saveDocument wrote (BuildDocument), for the table ProgressTable
PersistedDocument ==
  [content |-> [paragraphs |-> ProgressTable, totalParagraphs |-> Len(ProgressTable)],
   audio |-> [storagePath |-> "full-audio.wav",
              duration |-> TableEnd(ProgressTable),
              format |-> "wav",
              sampleRate |-> 24000],
   playback |-> [currentTime |-> 0, currentParagraphIndex |-> 0],
   notes |-> <<>>,
   updatedAt |-> 0]

NoCall ==
  [op |-> "none", step |-> "free", note |-> NewNote("none"), snapshot |-> <<>>,
   readAt |-> 0, wroteAt |-> 0]

StoreInit ==
  /\ ProcIdle
  /\ player = NoValue
  /\ fn = [op |-> "store",
           document |-> PersistedDocument,
           calls |-> [c \in StoreCalls |-> NoCall],
           now |-> 0]

\* the next call made is the lowest free one
NextCall(c) ==
  /\ c \in StoreCalls
  /\ fn.calls[c].step = "free"
  /\ \A b \in StoreCalls : b < c => fn.calls[b].step # "free"

\* mutant of updateDoc: the record is replaced by the given fields (setDoc)
updateDocReplacing(document, fields) == fields

\* updateDoc(documentRef, fields): the given fields are written, the others kept
updateDoc(document, fields) == fields @@ document

\* updatePlaybackProgress: one updateDoc of playback.* and updatedAt
UpdatePlaybackProgress ==
  /\ \E c \in StoreCalls : \E args \in ProgressArgs :
     \E outcome \in {"ok", "updateDoc fails"} :
       /\ NextCall(c)
       /\ fn' = [fn EXCEPT
            !.now = @ + 1,
            !.calls[c] = [NoCall EXCEPT !.op = "updatePlaybackProgress",
                                        !.step = IF outcome = "ok" THEN "done" ELSE "failed",
                                        !.readAt = fn.now + 1,
                                        !.wroteAt = fn.now + 1],
            !.document =
               IF outcome # "ok" THEN @
               ELSE updateDoc(@, [playback |-> [currentTime |-> args[1],
                                                currentParagraphIndex |-> args[2],
                                                lastPlayedAt |-> fn.now + 1,
                                                completionPercentage |-> 0] @@ @.playback,
                                  updatedAt |-> fn.now + 1])]
  /\ UNCHANGED nonFnVars

\* saveNote up to its second await: getDoc has answered with the record
SaveNoteGetDoc ==
  /\ \E c \in StoreCalls : \E id \in StoreNoteIds :
       /\ NextCall(c)
       /\ fn' = [fn EXCEPT
            !.now = @ + 1,
            !.calls[c] = [NoCall EXCEPT !.op = "saveNote",
                                        !.step = "read",
                                        !.note = NewNote(id),
                                        !.snapshot = fn.document.notes,
                                        !.readAt = fn.now + 1]]
  /\ UNCHANGED nonFnVars

\* existingNotes.findIndex(n => n.id === note.id), 0 for -1
FindNoteIndex(notes, id) ==
  IF \E k \in DOMAIN notes : notes[k].id = id
  THEN CHOOSE k \in DOMAIN notes :
         notes[k].id = id /\ \A j \in 1..(k - 1) : notes[j].id # id
  ELSE 0

\* the list saveNote writes: the note replaces the one of its id or is pushed
SavedNotes(existingNotes, note) ==
  LET noteIndex == FindNoteIndex(existingNotes, note.id)
  IN  IF noteIndex > 0
      THEN [existingNotes EXCEPT ![noteIndex] = [note EXCEPT !.edited = TRUE]]
      ELSE Append(existingNotes, note)

\* the rest of saveNote: updateDoc of notes and updatedAt
SaveNoteUpdateDoc ==
  /\ \E c \in StoreCalls : \E outcome \in {"ok", "updateDoc fails"} :
       /\ fn.calls[c].op = "saveNote"
       /\ fn.calls[c].step = "read"
       /\ fn' = [fn EXCEPT
            !.now = @ + 1,
            !.calls[c].step = IF outcome = "ok" THEN "done" ELSE "failed",
            !.calls[c].wroteAt = fn.now + 1,
            !.document =
               IF outcome # "ok" THEN @
               ELSE updateDoc(@, [notes |-> SavedNotes(fn.calls[c].snapshot,
                                                      fn.calls[c].note),
                                  updatedAt |-> fn.now + 1])]
  /\ UNCHANGED nonFnVars

\* deleteNote up to its second await
DeleteNoteGetDoc ==
  /\ \E c \in StoreCalls : \E id \in StoreNoteIds :
       /\ NextCall(c)
       /\ fn' = [fn EXCEPT
            !.now = @ + 1,
            !.calls[c] = [NoCall EXCEPT !.op = "deleteNote",
                                        !.step = "read",
                                        !.note = NewNote(id),
                                        !.snapshot = fn.document.notes,
                                        !.readAt = fn.now + 1]]
  /\ UNCHANGED nonFnVars

\* (document.notes || []).filter(n => n.id !== noteId)
RECURSIVE WithoutNote(_, _)
WithoutNote(notes, noteId) ==
  IF notes = <<>> THEN <<>>
  ELSE (IF Head(notes).id # noteId THEN <<Head(notes)>> ELSE <<>>)
       \o WithoutNote(Tail(notes), noteId)

\* the rest of deleteNote: updateDoc of notes and updatedAt
DeleteNoteUpdateDoc ==
  /\ \E c \in StoreCalls : \E outcome \in {"ok", "updateDoc fails"} :
       /\ fn.calls[c].op = "deleteNote"
       /\ fn.calls[c].step = "read"
       /\ fn' = [fn EXCEPT
            !.now = @ + 1,
            !.calls[c].step = IF outcome = "ok" THEN "done" ELSE "failed",
            !.calls[c].wroteAt = fn.now + 1,
            !.document =
               IF outcome # "ok" THEN @
               ELSE updateDoc(@, [notes |-> WithoutNote(fn.calls[c].snapshot,
                                                       fn.calls[c].note.id),
                                  updatedAt |-> fn.now + 1])]
  /\ UNCHANGED nonFnVars

StoreNext ==
  \/ UpdatePlaybackProgress
  \/ SaveNoteGetDoc
  \/ SaveNoteUpdateDoc
  \/ DeleteNoteGetDoc
  \/ DeleteNoteUpdateDoc

SpecStore == StoreInit /\ [][StoreNext]_vars


\* ------------------------------------------------------------------ Player, audio loaded paragraph by paragraph
\* The Player that loads and plays one paragraph's audio at a time.  A
\* function of a render sees the state of that render: the 'ended' handler of
\* a source and the deferred load it schedules carry the currentParaIndex
\* (index) of the render they were created in and the render of the
\* memoized loadAudioForParagraph (memo), which is renewed when doc changes.
\* The session is one of listening: the user starts the playback.

\* the paragraphs of the document
OnDemandParagraphs == 3
\* the most buffer sources created in a session
MaxSources == 3

\* audioBufferRef.current = null, sourceRef.current = null
NoBuffer == -1
NoSource == 0

\* the mounted Player once the loads of the mount effects have settled: the
\* audio of the stored paragraph is in audioBufferRef, nothing plays; the
\* saveDocument of persistProgress may still be under way
OnDemandInit ==
  /\ ProcIdle
  /\ player = NoValue
  /\ \E progressIndex \in 0..(OnDemandParagraphs - 1) : \E persists \in {0, 1} :
       fn = [op |-> "onDemand",
             currentParaIndex |-> progressIndex,
             isPlaying |-> FALSE,
             isLoadingAudio |-> FALSE,
             audioBuffer |-> progressIndex,
             source |-> NoSource,
             isManualStop |-> FALSE,
             sources |-> <<>>,
             loads |-> <<>>,
             timers |-> <<>>,
             effectPending |-> FALSE,
             memoIndex |-> progressIndex,
             persists |-> persists,
             startIndex |-> progressIndex,
             naturalEnds |-> 0]

\* sourceRef.current.stop(): a playing source stops, its 'ended' event is queued
StopSource(s) ==
  IF s.source # NoSource /\ s.sources[s.source].state = "playing"
  THEN [s EXCEPT !.sources[s.source].state = "stopped"]
  ELSE s

\* playBufferedAudio of the render with the given index and memo
playBufferedAudio(s, index, memo) ==
  IF s.audioBuffer = NoBuffer THEN s
  ELSE LET t == StopSource(s)
       IN  [t EXCEPT !.isManualStop = FALSE,
                     !.sources = Append(@, [paragraph |-> s.audioBuffer,
                                            state |-> "playing",
                                            index |-> index,
                                            memo |-> memo]),
                     !.source = Len(t.sources) + 1,
                     !.isPlaying = TRUE]

\* loadAudioForParagraph up to its first await
loadAudioForParagraph(s, index, autoPlay, memo) ==
  IF index >= OnDemandParagraphs THEN [s EXCEPT !.isPlaying = FALSE]
  ELSE LET t == IF s.source # NoSource
                THEN [StopSource(s) EXCEPT !.isManualStop = TRUE]
                ELSE s
       IN  [t EXCEPT !.isLoadingAudio = TRUE,
                     !.loads = Append(@, [index |-> index, autoPlay |-> autoPlay,
                                          memo |-> memo])]

\* handleAudioEnded of the render with the given index and memo
handleAudioEnded(s, index, memo) ==
  IF index < OnDemandParagraphs - 1
  THEN [s EXCEPT !.currentParaIndex = @ + 1,
                 !.audioBuffer = NoBuffer,
                 !.timers = Append(@, [index |-> index + 1, memo |-> memo]),
                 !.effectPending = TRUE]
  ELSE [s EXCEPT !.isPlaying = FALSE]

\* source.onended
OnEnded(s, k) ==
  LET t == [s EXCEPT !.sources[k].state = "over"]
  IN  IF ~s.isManualStop
      THEN handleAudioEnded(t, s.sources[k].index, s.sources[k].memo)
      ELSE t

\* the 'ended' event of a stopped source is queued: it is dispatched before
\* any later task
EndedQueued == \E k \in DOMAIN fn.sources : fn.sources[k].state = "stopped"

\* the 'ended' event of a source that stop() has stopped
StoppedSourceEnded ==
  /\ \E k \in DOMAIN fn.sources :
       /\ fn.sources[k].state = "stopped"
       /\ fn' = OnEnded(fn, k)
  /\ UNCHANGED nonFnVars

\* a source plays its buffer to the end
SourceEndsNaturally ==
  /\ ~EndedQueued
  /\ \E k \in DOMAIN fn.sources :
       /\ fn.sources[k].state = "playing"
       /\ fn' = OnEnded([fn EXCEPT !.naturalEnds = @ + 1], k)
  /\ UNCHANGED nonFnVars

\* the render after currentParaIndex changed and its effects: persistProgress
\* and the paragraph-change effect
ParagraphChangeEffect ==
  /\ ~EndedQueued
  /\ fn.effectPending
  /\ LET s == [fn EXCEPT !.effectPending = FALSE, !.persists = @ + 1]
     IN  fn' = IF s.audioBuffer = NoBuffer /\ ~s.isLoadingAudio
               THEN loadAudioForParagraph(s, s.currentParaIndex, s.isPlaying, s.memoIndex)
               ELSE s
  /\ UNCHANGED nonFnVars

\* the setTimeout(() => loadAudioForParagraph(currentParaIndex + 1, true), 0)
\* of handleAudioEnded fires
DeferredLoad ==
  /\ ~EndedQueued
  /\ fn.timers # <<>>
  /\ fn' = loadAudioForParagraph([fn EXCEPT !.timers = Tail(@)],
                                 Head(fn.timers).index, TRUE, Head(fn.timers).memo)
  /\ UNCHANGED nonFnVars

\* s without its k-th element
Without(s, k) == SubSeq(s, 1, k - 1) \o SubSeq(s, k + 1, Len(s))

\* the rest of loadAudioForParagraph: the audio was fetched from the cache,
\* or generated and cached (saveDocument, setDoc), or an await rejected
LoadSettles ==
  /\ ~EndedQueued
  /\ \E k \in DOMAIN fn.loads : \E outcome \in {"cached", "generated", "fails"} :
       LET load == fn.loads[k]
           s == [fn EXCEPT !.loads = Without(@, k),
                           !.isLoadingAudio = FALSE,
                           !.memoIndex = IF outcome = "generated"
                                         THEN fn.currentParaIndex ELSE @]
       IN  /\ (outcome # "fails" /\ load.autoPlay) => Len(fn.sources) < MaxSources
           /\ fn' = IF outcome = "fails" THEN [s EXCEPT !.isPlaying = FALSE]
                    ELSE IF load.autoPlay
                    THEN playBufferedAudio([s EXCEPT !.audioBuffer = load.index],
                                           load.memo, load.memo)
                    ELSE [s EXCEPT !.audioBuffer = load.index, !.isPlaying = FALSE]
  /\ UNCHANGED nonFnVars

\* the saveDocument of persistProgress settles; setDoc renews doc
PersistSettles ==
  /\ ~EndedQueued
  /\ fn.persists > 0
  /\ \E outcome \in {"ok", "saveDocument fails"} :
       fn' = [fn EXCEPT !.persists = @ - 1,
                        !.memoIndex = IF outcome = "ok" THEN fn.currentParaIndex ELSE @]
  /\ UNCHANGED nonFnVars

\* the play button, enabled while nothing is loading
handlePlay ==
  /\ ~EndedQueued
  /\ ~fn.isPlaying
  /\ ~fn.isLoadingAudio
  /\ Len(fn.sources) < MaxSources
  /\ fn' = IF fn.audioBuffer # NoBuffer
           THEN playBufferedAudio(fn, fn.currentParaIndex, fn.memoIndex)
           ELSE loadAudioForParagraph(fn, fn.currentParaIndex, TRUE, fn.memoIndex)
  /\ UNCHANGED nonFnVars

OnDemandNext ==
  \/ StoppedSourceEnded
  \/ SourceEndsNaturally
  \/ ParagraphChangeEffect
  \/ DeferredLoad
  \/ LoadSettles
  \/ PersistSettles
  \/ handlePlay

SpecOnDemand == OnDemandInit /\ [][OnDemandNext]_vars


\* ------------------------------------------------------------------ claims

AudioBlobs == {b \in blobs : b.kind = "audio"}
ImageBlobs == {b \in blobs : b.kind = "image"}

Terminated == pc \in {"done", "failed"}

\* every collaborator call issued so far has succeeded
AllCallsOk == \A k \in DOMAIN callLog : callLog[k].outcome = "ok"

SynthesisFailed ==
  \E k \in DOMAIN callLog : callLog[k].op = "tts" /\ callLog[k].outcome # "ok"

\* C1: the paragraph table of a Document produced by processDocument tiles the
\* track: it starts at 0, each paragraph ends where the next starts, and the
\* last one ends at audio.duration, which is the duration of the uploaded track
C1_TimestampsTileTrack ==
  \A d \in documents :
    LET ps == d.content.paragraphs
        n == Len(ps)
    IN  /\ n >= 1
        /\ ps[1].startTime = 0
        /\ \A k \in 1..(n - 1) : ps[k].endTime = ps[k + 1].startTime
        /\ ps[n].endTime = d.audio.duration
        /\ AudioBlobs # {}
        /\ \A b \in AudioBlobs : WavDuration(b.blob) = ps[n].endTime

\* a Document of three paragraphs of unequal durations has been produced
C1_Witness ==
  \E d \in documents :
    LET ps == d.content.paragraphs
    IN  /\ Len(ps) >= 3
        /\ ps[1].endTime - ps[1].startTime # ps[2].endTime - ps[2].startTime
        /\ ps[3].endTime > ps[3].startTime

\* C3: once a synthesis call has failed the run has failed and no Document is
\* persisted, in particular none holding the paragraphs synthesized before
C3_SynthesisFailureFailsRun ==
  SynthesisFailed => (pc = "failed" /\ documents = {})

\* the second or a later synthesis call of a run failed
C3_Witness ==
  /\ SynthesisFailed
  /\ Len(timestamps) >= 1
  /\ Len(paragraphTexts) >= 3
  /\ pc = "failed"

\* a persisted record holds every paragraph of the run with its timestamps
WholeDocument(d) ==
  /\ Len(d.content.paragraphs) = Len(paragraphTexts)
  /\ Len(paragraphTexts) = Len(timestamps)
  /\ d.content.totalParagraphs = Len(paragraphTexts)
  /\ \A k \in 1..Len(paragraphTexts) :
       /\ d.content.paragraphs[k].index = k - 1
       /\ d.content.paragraphs[k].text = Trim(paragraphTexts[k])
       /\ d.content.paragraphs[k].startTime = timestamps[k].start
       /\ d.content.paragraphs[k].endTime = timestamps[k].end

\* C7: a Document record is visible only if the audio blob is uploaded and the
\* record holds every paragraph with its timestamps, and nothing is written to
\* storage once the record is visible
C7_DocumentWrittenLast ==
  /\ [](\A d \in documents :
          /\ AudioBlob(audioResult.audioBlob) \in blobs
          /\ WholeDocument(d))
  /\ [][documents # {} => (blobs' = blobs /\ documents' = documents)]_vars

\* a Document of several paragraphs from several images is visible
C7_Witness ==
  \E d \in documents :
    /\ Len(d.content.paragraphs) >= 2
    /\ Len(d.sourceImages) >= 2
    /\ pc = "done"

\* C8: when processDocument has failed nothing written by the run remains in
\* storage
C8_FailureLeavesNothing ==
  pc = "failed" => (blobs = {} /\ documents = {})

NoTextFound == "No text found in any of the uploaded images."

\* the text extraction of image k yields no text
YieldsNoText(k) == extractTextFromResponse(images[k].ocr) = <<>>

\* nothing but missing text troubles the run: no oversized image, no failed call
OnlyTextTrouble ==
  /\ AllCallsOk
  /\ \A k \in DOMAIN images : images[k].size <= MAX_FILE_SIZE

\* C9: when no image yields text the run saves no Document and fails with the
\* 'no text found' error
C9_NoTextFails ==
  (\A k \in DOMAIN images : YieldsNoText(k)) =>
    /\ documents = {}
    /\ pc # "done"
    /\ (pc = "failed" /\ OnlyTextTrouble) => error = NoTextFound

\* the texts of the images that yield text, in image order
RECURSIVE ExtractedTexts(_)
ExtractedTexts(k) ==
  IF k = 0 THEN <<>>
  ELSE ExtractedTexts(k - 1) \o
       (IF YieldsNoText(k) THEN <<>> ELSE <<extractTextFromResponse(images[k].ocr)>>)

\* C10: an image without text is skipped: when some image yields text the run
\* does not fail for want of text, and the full text is the texts of the
\* images that yield text, joined by paragraph breaks in image order
C10_NoTextImageSkipped ==
  ((\E k \in DOMAIN images : ~YieldsNoText(k)) /\ OnlyTextTrouble) =>
    /\ error \notin {NoTextFound, "Gemini returned an empty response."}
    /\ pc \in {"audio", "uploadAudio", "save", "done"} =>
         fullText = combineOCRTexts(ExtractedTexts(Len(images)))

SameFormat(buffers) ==
  \A k \in DOMAIN buffers :
    /\ buffers[k].numberOfChannels = buffers[1].numberOfChannels
    /\ buffers[k].sampleRate = buffers[1].sampleRate

\* C2: the track concatenateAudioBuffers returns has the sum of the inputs'
\* frame counts, buffer k's frames lie in input order at the offset that is
\* the sum of the earlier lengths, a single buffer is returned unchanged, and
\* a non-empty list of buffers of one format always yields a track
C2_ConcatenationConservesFrames ==
  (fn.op = "concatenateAudioBuffers" /\ fn.done) =>
    LET buffers == fn.buffers
        track == fn.result
    IN  /\ (Len(buffers) >= 1 /\ SameFormat(buffers)) => ~fn.threw
        /\ ~fn.threw =>
             /\ Len(buffers) >= 1
             /\ track.length = SumLengths(buffers)
             /\ track.numberOfChannels = buffers[1].numberOfChannels
             /\ \A c \in 1..track.numberOfChannels :
                  /\ Len(track.channelData[c]) = SumLengths(buffers)
                  /\ \A k \in DOMAIN buffers : \A f \in 1..buffers[k].length :
                       track.channelData[c][SumLengths(SubSeq(buffers, 1, k - 1)) + f]
                         = buffers[k].channelData[c][f]
             /\ Len(buffers) = 1 => track = buffers[1]

\* three buffers of one format and different lengths have been concatenated
C2_Witness ==
  /\ fn.op = "concatenateAudioBuffers"
  /\ fn.done
  /\ ~fn.threw
  /\ Len(fn.buffers) = 3
  /\ SameFormat(fn.buffers)
  /\ fn.buffers[1].length # fn.buffers[2].length
  /\ fn.result.length = SumLengths(fn.buffers)

\* C4: for a contiguous table and 0 <= time < last.endTime the resolver returns
\* the one paragraph with startTime <= time < endTime, a time on a shared
\* boundary resolves to the later paragraph, and the example table resolves
\* 0, 4.999, 5 and 11.999 to paragraphs 0, 1, 2 and 4
C4_ResolverFindsUniqueParagraph ==
  (fn.op = "getCurrentParagraph" /\ fn.done
     /\ fn.time < fn.paragraphs[Len(fn.paragraphs)].endTime) =>
    LET ps == fn.paragraphs
        p == fn.result
    IN  /\ p # Undefined
        /\ \E k \in DOMAIN ps : ps[k] = p /\ p.index = k - 1
        /\ p.startTime <= fn.time /\ fn.time < p.endTime
        /\ \A k \in DOMAIN ps :
             (ps[k].startTime <= fn.time /\ fn.time < ps[k].endTime) => ps[k] = p
        /\ \A k \in 2..Len(ps) : fn.time = ps[k].startTime => p.index = k - 1
        /\ ps = ExampleTable =>
             /\ fn.time = 0 => p.index = 0
             /\ fn.time = 4999 => p.index = 1
             /\ fn.time = 5000 => p.index = 2
             /\ fn.time = 11999 => p.index = 4

\* the example table has been resolved at the boundary 5 s
C4_Witness ==
  /\ fn.op = "getCurrentParagraph"
  /\ fn.done
  /\ fn.paragraphs = ExampleTable
  /\ fn.time = 5000
  /\ fn.result.index = 2

\* C5: after a tick handled with the play-head inside the track, the active
\* paragraph index is the index of the paragraph that holds the play-head
C5_TickResolvesParagraph ==
  [][(TimeUpdate /\ player'.audioTime < TableEnd(player.paragraphs)) =>
       player'.currentParagraphIndex = ParagraphIndexAt(player'.audioTime, player.paragraphs)]_vars

\* C6: after a tick handled with the play-head at or beyond the end of the last
\* paragraph, the active paragraph index is the last paragraph's
C6_TickAtEndClampsToLast ==
  [][(TimeUpdate /\ player'.audioTime >= TableEnd(player.paragraphs)) =>
       player'.currentParagraphIndex = Len(player.paragraphs) - 1]_vars

\* ------------------------------------------------------------------ progress reports

\* status a reports no more progress than status b
ProgressLeq(a, b) == a.num * b.den <= b.num * a.den

\* C11: the progress values reported during one run, the last report
\* included, never decrease
C11_ProgressNeverDecreases ==
  \A k \in 1..(Len(statusLog) - 1) : ProgressLeq(statusLog[k], statusLog[k + 1])

\* the progress of status s lies in [lo, hi]
InBand(s, lo, hi) == lo * s.den <= s.num /\ s.num <= hi * s.den

\* C12: every report of the stages 'uploading', 'ocr', 'audio', 'saving' and
\* 'complete' has its progress in the band of its stage
C12_ProgressInsideStageBand ==
  \A k \in DOMAIN statusLog :
    LET s == statusLog[k]
    IN  /\ s.stage = "uploading" => InBand(s, 0, 25)
        /\ s.stage = "ocr" => InBand(s, 25, 50)
        /\ s.stage = "audio" => InBand(s, 50, 90)
        /\ s.stage = "saving" => InBand(s, 90, 100)
        /\ s.stage = "complete" => InBand(s, 100, 100)

\* a finished run has reported from inside the 'ocr' band and from inside the
\* 'audio' band
C12_Witness ==
  /\ pc = "done"
  /\ \E k \in DOMAIN statusLog :
       statusLog[k].stage = "ocr" /\ ~InBand(statusLog[k], 25, 25) /\ ~InBand(statusLog[k], 50, 50)
  /\ \E k \in DOMAIN statusLog :
       statusLog[k].stage = "audio" /\ ~InBand(statusLog[k], 50, 50) /\ ~InBand(statusLog[k], 90, 90)

\* the stage a failed run was in: the stage of its last report before 'error'
FailingStage == statusLog[Len(statusLog) - 1].stage

\* the messages of the errors a stage can throw
FailureMessages(stage) ==
  CASE stage = "uploading" ->
         {"File exceeds 10MB limit", "uploadBytes fails", "getDownloadURL fails"}
    [] stage = "ocr" ->
         {"Failed to read file.", "Gemini request failed",
          "Gemini returned an empty response.", NoTextFound}
    [] stage = "audio" ->
         {"Text is empty, cannot generate speech.", "Gemini request failed",
          "No audio data returned from Gemini.", "decodeAudioData failed",
          "No audio buffers to concatenate"}
    [] stage = "saving" ->
         {"uploadBytes fails", "getDownloadURL fails", "setDoc fails"}

Stages == {"uploading", "ocr", "audio", "saving"}

\* C13: the status and the error of a failed run identify the stage of the
\* failure: the reported stage is that stage, or the message is one that no
\* other stage fails with
C13_FailureIdentifiesStage ==
  pc = "failed" =>
    \/ statusLog[Len(statusLog)].stage = FailingStage
    \/ /\ error \in FailureMessages(FailingStage)
       /\ \A stage \in Stages \ {FailingStage} : error \notin FailureMessages(stage)

\* ------------------------------------------------------------------ saving the progress

\* C14: two successive progress writes of a session are at least two seconds
\* apart
C14_WritesTwoSecondsApart == fn.lastGap = -1 \/ fn.lastGap >= SaveDelay

\* two progress writes have been issued in the session
C14_Witness == fn.lastGap >= SaveDelay /\ fn.sinceWrite = 0

\* C15: while playback goes on and its ticks keep arriving, no more than about
\* two seconds (three, with the slack of a second) pass without a progress write
C15_SavedEveryTwoSeconds == fn.playedFor <= SaveDelay + 1

\* C16: a progress write that fails leaves isPlaying, the play-head and the
\* active paragraph as they are, and the effect as a write that succeeds
\* leaves it, so that later ticks and writes go on as before
C16_FailedSaveKeepsPlaying ==
  [][(SaveTimerFires /\ fn'.sinceWrite = 0 /\ fn'.lastOutcome = "failed") =>
       /\ player' = player
       /\ fn'.timer = -1
       /\ fn'.deps = fn.deps]_vars

\* after a failed write playback has gone on and a later write has succeeded
C16_Witness ==
  /\ fn.failedBefore
  /\ fn.lastOutcome = "ok"
  /\ fn.sinceWrite = 0
  /\ player.isPlaying

\* ------------------------------------------------------------------ segmentation claims

\* C17: every chunk normalizeParagraph and parseIntoParagraphs return is at
\* most one and a half times the maximum long
C17_ChunkLengthBounded ==
  fn.done =>
    \A k \in DOMAIN fn.result : 2 * Len(fn.result[k]) <= 3 * fn.maxLength

\* a text of at least one and a half times the maximum has been cut into
\* several chunks
C17_Witness ==
  /\ fn.done
  /\ 2 * Len(Trim(fn.text)) >= 3 * fn.maxLength
  /\ Len(fn.result) >= 2

\* the characters of s that are not whitespace, in order
RECURSIVE NonWhitespace(_)
NonWhitespace(s) ==
  IF s = <<>> THEN <<>>
  ELSE (IF Head(s) \in WS THEN <<>> ELSE <<Head(s)>>) \o NonWhitespace(Tail(s))

\* C18: the chunks of parseIntoParagraphs, concatenated in order, hold the
\* non-whitespace characters of the text, all of them and in their order
C18_ChunksKeepCharacters ==
  (fn.done /\ fn.op = "parseIntoParagraphs") =>
    NonWhitespace(Flatten(fn.result)) = NonWhitespace(fn.text)

\* ------------------------------------------------------------------ assembly claims

\* C19: concatenateAudioBuffers called with buffers that differ in sample rate
\* or in channel count throws and returns no track
C19_MismatchFailsFast ==
  (fn.done /\ ~SameFormat(fn.buffers)) => (fn.threw /\ fn.result = NoValue)

\* C20: every paragraph of a persisted Document ends after it starts
C20_ParagraphsHaveLength ==
  \A d \in documents :
    \A k \in DOMAIN d.content.paragraphs :
      d.content.paragraphs[k].endTime > d.content.paragraphs[k].startTime

\* a Document of several paragraphs is persisted, one of them of a single frame
C20_Witness ==
  \E d \in documents :
    /\ Len(d.content.paragraphs) >= 2
    /\ \E k \in DOMAIN d.content.paragraphs :
         d.content.paragraphs[k].endTime = d.content.paragraphs[k].startTime + 1

\* ------------------------------------------------------------------ encoder claims

\* C21: a 16-bit value decoded to a float sample and encoded again differs
\* from the value by at most 1 and is a signed 16-bit value
C21_RoundTripWithinOne ==
  (fn.op = "roundTrip" /\ fn.step = "encoded") =>
    LET encoded == fn.wav.data[1]
    IN  /\ encoded - fn.value \in {-1, 0, 1}
        /\ encoded \in PcmValues
        /\ fn.buffer.channelData[1][1] = fn.value

\* the largest value has made the round trip and has lost one step
C21_Witness ==
  /\ fn.op = "roundTrip"
  /\ fn.step = "encoded"
  /\ fn.value = 32767
  /\ fn.wav.data[1] = 32766

\* ------------------------------------------------------------------ termination

\* C22: every run ends, with the document returned or an error thrown, also
\* when a collaborator does not answer a request
C22_EveryRunTerminates == <>Terminated

\* ------------------------------------------------------------------ document store claims

\* the call has written to the record
Wrote(c) == fn.calls[c].step = "done"

\* C23: the paragraph table and the audio metadata of a persisted Document
\* stay as created under updatePlaybackProgress, saveNote and deleteNote
C23_ParagraphsAndAudioImmutable ==
  /\ {"content", "audio"} \subseteq DOMAIN fn.document
  /\ fn.document.content = PersistedDocument.content
  /\ fn.document.audio = PersistedDocument.audio

\* a progress update, a saveNote and a deleteNote have all written
C23_Witness ==
  /\ \A op \in {"updatePlaybackProgress", "saveNote", "deleteNote"} :
       \E c \in StoreCalls : fn.calls[c].op = op /\ Wrote(c)
  /\ fn.document.updatedAt = fn.now
  /\ fn.document.playback.currentTime > 0

\* each of the two calls read the record before the other wrote it
Overlap(c, d) ==
  /\ fn.calls[c].readAt < fn.calls[d].wroteAt
  /\ fn.calls[d].readAt < fn.calls[c].wroteAt

\* the stored notes show what the call did
Reflected(c) ==
  LET present == \E k \in DOMAIN fn.document.notes :
                   fn.document.notes[k].id = fn.calls[c].note.id
  IN  IF fn.calls[c].op = "saveNote" THEN present ELSE ~present

\* C30: when two saveNote / deleteNote calls on different notes overlap and
\* both have written, and no other call is about these notes, the stored
\* notes hold both added notes and lack the deleted one
C30_OverlappingNoteCallsKeepBoth ==
  \A c, d \in StoreCalls :
    ( /\ c # d
      /\ {fn.calls[c].op, fn.calls[d].op} \subseteq {"saveNote", "deleteNote"}
      /\ Wrote(c) /\ Wrote(d)
      /\ Overlap(c, d)
      /\ fn.calls[c].note.id # fn.calls[d].note.id
      /\ \A e \in StoreCalls \ {c, d} :
           fn.calls[e].note.id \notin {fn.calls[c].note.id, fn.calls[d].note.id} )
    => Reflected(c) /\ Reflected(d)

\* ------------------------------------------------------------------ navigation claims

\* C24: a click on paragraph i puts the play-head at the start of paragraph i
\* and makes i the active paragraph, and a tick at that position leaves i active
C24_ClickSeeksToParagraph ==
  [][\A paragraphIndex \in 0..(Len(player.paragraphs) - 1) :
       player' = SeekToParagraphState(player, paragraphIndex) =>
         /\ player'.audioTime = player.paragraphs[paragraphIndex + 1].startTime
         /\ player'.currentTime = player.paragraphs[paragraphIndex + 1].startTime
         /\ player'.currentParagraphIndex = paragraphIndex
         /\ TimeUpdateIndex(player'.audioTime, player'.paragraphs,
                            player'.listenerParagraphIndex,
                            player'.currentParagraphIndex) = paragraphIndex]_vars

\* the second paragraph has been clicked from inside the first: the play-head
\* is at its start and it is the active paragraph
C24_Witness ==
  /\ Len(player.paragraphs) = 2
  /\ player.currentParagraphIndex = 1
  /\ player.listenerParagraphIndex = 0
  /\ player.audioTime = player.paragraphs[2].startTime
  /\ player.currentTime = player.audioTime

\* C29: in a playback session the active paragraph index stays inside the
\* table and the play-head stays inside the track
C29_IndexAndPlayheadInRange ==
  /\ player.currentParagraphIndex \in 0..(Len(player.paragraphs) - 1)
  /\ player.currentTime \in 0..player.duration
  /\ player.audioTime \in 0..player.duration

\* the last paragraph is active with the play-head at the end of the track,
\* after a note was taken there
C29_Witness ==
  /\ Len(player.paragraphs) = PlayerParagraphs
  /\ player.currentParagraphIndex = Len(player.paragraphs) - 1
  /\ player.currentTime = player.duration
  /\ \E note \in player.notes : note.paragraphIndex = player.currentParagraphIndex

\* ------------------------------------------------------------------ synthesis order

\* the synthesis calls made so far, in the order they were made
TtsCalls == SelectSeq(callLog, LAMBDA call : call.op = "tts")

\* C25: the synthesis calls are made in paragraph order, each after the one
\* before has answered; the k-th segment and the k-th timestamp are those of
\* the k-th paragraph; after a failed call no further call is made
C25_SynthesisInParagraphOrder ==
  /\ \A k \in DOMAIN TtsCalls :
       /\ TtsCalls[k].arg = k - 1
       /\ k < Len(TtsCalls) => TtsCalls[k].outcome = "ok"
  /\ Len(audioBuffers) = Len(timestamps)
  /\ Len(audioBuffers) <= Len(TtsCalls)
  /\ \A k \in DOMAIN audioBuffers :
       /\ \A f \in 1..audioBuffers[k].length :
            audioBuffers[k].channelData[1][f] % 256 = k - 1
       /\ timestamps[k].end - timestamps[k].start = AudioBufferDuration(audioBuffers[k])
       /\ timestamps[k].start = IF k = 1 THEN 0 ELSE timestamps[k - 1].end
  /\ pc = "done" =>
       \A d \in documents : \A k \in DOMAIN d.content.paragraphs :
         /\ d.content.paragraphs[k].text = Trim(paragraphTexts[k])
         /\ d.content.paragraphs[k].startTime = timestamps[k].start
         /\ d.content.paragraphs[k].endTime = timestamps[k].end

\* the third synthesis call failed after two segments of different lengths
C25_Witness ==
  /\ Len(TtsCalls) = 3
  /\ TtsCalls[3].outcome # "ok"
  /\ Len(audioBuffers) = 2
  /\ audioBuffers[1].length # audioBuffers[2].length
  /\ pc = "failed"

\* ------------------------------------------------------------------ terminal status

\* the positions in the status log of the 'complete' and 'error' reports
TerminalReports == {k \in DOMAIN statusLog : statusLog[k].stage \in {"complete", "error"}}

\* C28: a run reports exactly one terminal status, the last of its reports:
\* 'complete' with progress 100 only after the Document has been saved,
\* 'error' only when the run throws
C28_OneTerminalStatus ==
  /\ Cardinality(TerminalReports) <= 1
  /\ TerminalReports \subseteq {Len(statusLog)}
  /\ Terminated <=> TerminalReports # {}
  /\ \A k \in TerminalReports :
       /\ statusLog[k].stage = "complete" =>
            /\ pc = "done"
            /\ statusLog[k].num = 100 * statusLog[k].den
            /\ documents # {}
            /\ callLog[Len(callLog)] = [op |-> "saveDocument", arg |-> 0, outcome |-> "ok"]
       /\ statusLog[k].stage = "error" =>
            /\ pc = "failed"
            /\ error # NoValue
            /\ documents = {}

\* a run failed at the save of the record, after every other step succeeded
C28_Witness ==
  /\ pc = "failed"
  /\ error = "setDoc fails"
  /\ statusLog[Len(statusLog)].stage = "error"
  /\ statusLog[Len(statusLog) - 1].stage = "saving"

\* ------------------------------------------------------------------ paragraph breaks

\* the passages of one image's text: what its blank lines separate
Passages(text) == FilterNonBlank(SplitParagraphBreaks(text))

\* the number of passages in the texts of the first k images
RECURSIVE PassageCount(_)
PassageCount(k) ==
  IF k = 0 THEN 0
  ELSE PassageCount(k - 1) +
       (IF YieldsNoText(k) THEN 0
        ELSE Len(Passages(extractTextFromResponse(images[k].ocr))))

\* C26: passages that a blank line separates inside one image's text lie in
\* different paragraphs, so the run has at least as many paragraphs as its
\* images have passages
C26_BlankLineKeptAsBoundary ==
  pc \in {"audio", "uploadAudio", "save", "done"} =>
    Len(paragraphTexts) >= PassageCount(Len(images))

\* ------------------------------------------------------------------ paragraph by paragraph

\* C27: each natural end of a paragraph that is not the last moves the
\* session on by exactly one paragraph, and the audio that plays is that of
\* the current paragraph
C27_NaturalEndAdvancesByOne ==
  /\ fn.currentParaIndex <= fn.startIndex + fn.naturalEnds
  /\ \A k \in DOMAIN fn.sources :
       fn.sources[k].state = "playing" => fn.sources[k].paragraph = fn.currentParaIndex

====
